---- MODULE Spec2Model ----
(***************************************************************************)
(* State-machine model of src/sync.ts (solid-iot-sync): the one-time full  *)
(* sync of HomeKit services to a Solid pod, the incremental forward sync   *)
(* driven by "service-update" events, and the reverse sync driven by the   *)
(* pod's websocket "pub" messages.  Every asynchronous function is cut at  *)
(* its awaits: one action is the synchronous run between two suspensions.  *)
(***************************************************************************)
EXTENDS Integers, Sequences, FiniteSets, TLC

\* ---------------------------------------------------------------- bounds
\* What the environment may do in one run: changes of a value on the HomeKit
\* side, writes of other clients into the pod and unsolicited messages
\* (MaxChanges), and failed requests (MaxFailures).  MaxOps caps the writes
\* the listener issues and the setValue calls of one run.
MaxChanges == 2
MaxFailures == 1
MaxOps == 3

\* ------------------------------------------------- the enumerated services
\* What hap.getAllServices() returns: two services; d1 has a bool and a
\* characteristic of a format outside the switch, d2 has an int.
Devices == {"d1", "d2"}
Chars == {"c1", "c2", "c3"}
Unknown == "cX"
Resources == Chars \cup {Unknown}

serviceCharacteristics(d) == IF d = "d1" THEN <<"c1", "c2">> ELSE <<"c3">>

deviceOf(c) == IF c = "c3" THEN "d2" ELSE "d1"

format(c) == CASE c = "c1" -> "bool" [] c = "c2" -> "enum" [] OTHER -> "int"

\* ------------------------------------------------------------- values
\* A JavaScript value boolean | number | string | null, tagged.  A string
\* is the sequence of its characters.  A number is kept in tenths (n is
\* ten times the number), so that one decimal place can be told apart.
Scale == 10
Bool(b) == [t |-> "bool", n |-> b, s |-> <<>>]
Dec(m) == [t |-> "num", n |-> m, s |-> <<>>]
Num(n) == Dec(n * Scale)
Str(s) == [t |-> "str", n |-> 0, s |-> s]
Null == [t |-> "null", n |-> 0, s |-> <<>>]
NaN == [t |-> "nan", n |-> 0, s |-> <<>>]
Absent == [t |-> "absent", n |-> 0, s |-> <<>>]

\* The values a characteristic of each format takes on the HomeKit side.
Values(c) == IF format(c) = "bool" THEN {Bool(0), Bool(1)} ELSE {Num(0), Num(1)}

DigitChars == <<"0", "1", "2", "3", "4", "5", "6", "7", "8", "9">>
IsDigit(ch) == \E k \in 1..10 : DigitChars[k] = ch
DigitOf(ch) == (CHOOSE k \in 1..10 : DigitChars[k] = ch) - 1

\* The decimal digits of a natural number.
RECURSIVE Digits(_)
Digits(n) ==
    IF n < 10 THEN <<DigitChars[n + 1]>>
    ELSE Append(Digits(n \div 10), DigitChars[(n % 10) + 1])

\* The number of blanks, and of digits, of s from position i on.
RECURSIVE BlankRun(_, _)
BlankRun(s, i) == IF i <= Len(s) /\ s[i] = " " THEN 1 + BlankRun(s, i + 1) ELSE 0

RECURSIVE DigitRun(_, _)
DigitRun(s, i) == IF i <= Len(s) /\ IsDigit(s[i]) THEN 1 + DigitRun(s, i + 1) ELSE 0

\* The value of the k digits of s that start at position i.
RECURSIVE DigitsValue(_, _, _)
DigitsValue(s, i, k) ==
    IF k = 0 THEN 0 ELSE 10 * DigitsValue(s, i, k - 1) + DigitOf(s[i + k - 1])

\* The longest numeric prefix of s after leading blanks: sign, digits and,
\* with frac, a point and more digits (of which the model keeps the tenths).
\* ok says there was a digit, end is the position after the prefix.
\* Here the k digits start at position i and p is 0 without a point, else
\* one more than the number of digits after it.
ScanResult(s, i, k, p, sign) ==
    [ok |-> k > 0 \/ p > 1,
     m |-> sign * (Scale * DigitsValue(s, i, k)
                   + (IF p > 1 THEN DigitOf(s[i + k + 1]) ELSE 0)),
     end |-> IF p > 1 \/ (p = 1 /\ k > 0) THEN i + k + p ELSE i + k]

ScanPoint(s, i, k, sign, frac) ==
    ScanResult(s, i, k,
               IF frac /\ i + k <= Len(s) /\ s[i + k] = "."
               THEN 1 + DigitRun(s, i + k + 1) ELSE 0,
               sign)

ScanSigned(s, b, frac) ==
    IF b <= Len(s) /\ s[b] \in {"-", "+"}
    THEN ScanPoint(s, b + 1, DigitRun(s, b + 1), IF s[b] = "-" THEN 0 - 1 ELSE 1, frac)
    ELSE ScanPoint(s, b, DigitRun(s, b), 1, frac)

ScanNumber(s, frac) == ScanSigned(s, 1 + BlankRun(s, 1), frac)

\* Lines 197, 207, 218 and the readers of the pod's literals.
parseInt(s) == LET r == ScanNumber(s, FALSE) IN IF r.ok THEN Dec(r.m) ELSE NaN

\* Variant: the text of a decimal is read as an integer.
parseFloatAsInt(s) == LET r == ScanNumber(s, FALSE) IN IF r.ok THEN Dec(r.m) ELSE NaN

parseFloat(s) == LET r == ScanNumber(s, TRUE) IN IF r.ok THEN Dec(r.m) ELSE NaN

\* Number(s), the coercion of a string by + and by ==: the whole string has
\* to be a number; the empty string is 0.
StringToNumber(s) ==
    LET r == ScanNumber(s, TRUE)
    IN IF BlankRun(s, 1) = Len(s) THEN Num(0)
       ELSE IF r.ok /\ r.end + BlankRun(s, r.end) = Len(s) + 1 THEN Dec(r.m)
       ELSE NaN

\* +value, and the coercion == applies to a non-number operand.
ToNumber(v) ==
    CASE v.t = "bool" -> Num(v.n)
      [] v.t = "num" -> v
      [] v.t = "str" -> StringToNumber(v.s)
      [] v.t = "null" -> Num(0)
      [] OTHER -> NaN

\* Number.prototype.toString, the lexical form addInteger and addDecimal
\* store.
NumberToString(v) ==
    IF v.t # "num" THEN <<"N", "a", "N">>
    ELSE LET a == IF v.n < 0 THEN 0 - v.n ELSE v.n
         IN (IF v.n < 0 THEN <<"-">> ELSE <<>>)
            \o Digits(a \div Scale)
            \o (IF a % Scale = 0 THEN <<>> ELSE <<".", DigitChars[(a % Scale) + 1]>>)

\* `${value}`
TemplateString(v) ==
    CASE v.t = "str" -> v.s
      [] v.t = "bool" -> (IF v.n = 1 THEN <<"t", "r", "u", "e">>
                          ELSE <<"f", "a", "l", "s", "e">>)
      [] v.t = "num" -> NumberToString(v)
      [] v.t = "nan" -> <<"N", "a", "N">>
      [] OTHER -> <<"n", "u", "l", "l">>

\* JavaScript a == b on the tagged values.
LooseEq(a, b) ==
    CASE a.t = "nan" \/ b.t = "nan" -> FALSE
      [] a.t = "absent" \/ b.t = "absent" -> a.t = b.t
      [] a.t = "null" \/ b.t = "null" -> a.t = b.t
      [] a.t = b.t -> a = b
      [] OTHER -> ToNumber(a).t = "num" /\ ToNumber(a) = ToNumber(b)

IntFormats == {"int", "uint8", "uint16", "uint32", "uint64"}
Supported == {"bool", "string", "float"} \cup IntFormats

\* A typed literal of the pod: the literal's datatype and its lexical form.
Literal(dt, lex) == [dt |-> dt, v |-> lex]
NoLiteral == Literal("none", <<>>)

\* The switch of syncCharacteristicToSolid: the value literal added to the
\* thing; the default branch only logs, so the thing carries no value.
Encode(fmt, value) ==
    CASE fmt = "bool" \/ fmt \in IntFormats ->
            Literal("integer",
                    NumberToString(IF value.t = "str" THEN parseInt(value.s)
                                   ELSE ToNumber(value)))
      [] fmt = "string" -> Literal("string", TemplateString(value))
      [] fmt = "float" ->
            Literal("decimal",
                    NumberToString(IF value.t = "str" THEN parseFloat(value.s)
                                   ELSE ToNumber(value)))
      [] OTHER -> NoLiteral

\* getInteger / getDecimal: null without a literal of that datatype or when
\* its lexical form is no number; getStringNoLocale: the lexical form.
ReadNumber(p) == IF p.t = "num" THEN p ELSE Null

\* The switch of onmessage; the default branch gives null.
Decode(fmt, lit) ==
    CASE fmt = "bool" \/ fmt \in IntFormats ->
            (IF lit.dt = "integer" THEN ReadNumber(parseInt(lit.v)) ELSE Null)
      [] fmt = "string" -> (IF lit.dt = "string" THEN Str(lit.v) ELSE Null)
      [] fmt = "float" ->
            (IF lit.dt = "decimal" THEN ReadNumber(parseFloat(lit.v)) ELSE Null)
      [] OTHER -> Null

\* The dataset saved for a characteristic: its format and its value literal.
NoRecord == [fmt |-> "none", val |-> NoLiteral]
CharacteristicRecord(c, value) == [fmt |-> format(c), val |-> Encode(format(c), value)]

\* ------------------------------------------------------------- state
VARIABLES
    device,      \* HomeKit side: the current value of each characteristic
    remote,      \* pod: the record stored at each characteristic url
    devRecord,   \* pod: the hasCharacteristic links of each device record
    cache,       \* the characteristics Map: url -> last synced value
    writes,      \* saveSolidDatasetAt calls of characteristics in flight
    task,        \* one syncDeviceToSolid invocation per service
    snap,        \* the services getAllServices returned (values at that time)
    mainpc,      \* position of the instance-discovered handler
    group,       \* groupName configured, webId, group record, owner link, identity save
    hapMon,      \* "off" | "pending" | "on": the service-update listener
    socket,      \* "none" | "connecting" | "open"
    subscribed,  \* urls the pod has a "sub" for
    events,      \* service-update events emitted and not yet delivered
    notifs,      \* "pub" messages sent by the pod and not yet delivered
    handlers,    \* onmessage invocations suspended at an await
    budget,      \* what the environment may still do (changes, failures)
    hist,        \* history: per-url write counts and provenance
    proc,        \* "running" | "exited": the node process
    codec        \* one value taken through the two format switches

vars == <<device, remote, devRecord, cache, writes, task, snap, mainpc, group,
          hapMon, socket, subscribed, events, notifs, handlers, budget, hist,
          proc, codec>>

CharSet(d) == {serviceCharacteristics(d)[i] : i \in 1..Len(serviceCharacteristics(d))}

InitialValue(c) == IF format(c) = "bool" THEN Bool(0) ELSE Num(0)

IdleTask == [pc |-> "idle", i |-> 0, links |-> {}]

\* No value is under way through the switches.
NoCodec == [pc |-> "none", fmt |-> "none", value |-> Null, rec |-> NoRecord, out |-> Null]

InitHist ==
    [lastSync |-> [c \in Chars |-> Absent], \* value of the latest forward sync call
                                            \* since the entry was last set otherwise
     ops |-> 0,                             \* writes the listener issued + setValue calls
     dropped |-> FALSE,                     \* a message was dropped for an unknown url
     repeat |-> FALSE]                      \* a call repeated the value of a call whose
                                            \* save was still in flight, and was skipped

Init ==
    /\ device = [c \in Chars |-> InitialValue(c)]
    /\ remote = [c \in Chars |-> NoRecord]
    /\ devRecord = [d \in Devices |-> [written |-> FALSE, links |-> {}]]
    /\ cache = [c \in Chars |-> Absent]
    /\ writes = <<>>
    /\ task = [d \in Devices |-> IdleTask]
    /\ snap = [c \in Chars |-> Absent]
    /\ mainpc = "init"
    /\ group = [name |-> FALSE, webId |-> FALSE, written |-> FALSE, links |-> {},
                 owner |-> FALSE, groupWrite |-> "none", idWrite |-> "none"]
    /\ hapMon = "off"
    /\ socket = "none"
    /\ subscribed = {}
    /\ events = <<>>
    /\ notifs = <<>>
    /\ handlers = <<>>
    /\ budget = [env |-> MaxChanges, fail |-> MaxFailures]
    /\ hist = InitHist
    /\ proc = "running"
    /\ codec = NoCodec

\* ---------------------------------------------------- forward sync
\* Line 174: the write-suppression guard.
Suppressed(cch, c, value) == cch[c] # Absent /\ LooseEq(value, cch[c])

\* Variant: the call does not record the value in the Map.
syncCharacteristicNoCache(st, c, value, owner) ==
    IF st.cache[c] # Absent /\ LooseEq(value, st.cache[c])
    THEN [st EXCEPT !.hist.lastSync[c] = value, !.issued = FALSE]
    ELSE [cache |-> st.cache,
          writes |-> Append(st.writes,
                            [c |-> c, value |-> value,
                             rec |-> CharacteristicRecord(c, value), owner |-> owner]),
          hist |-> [st.hist EXCEPT !.lastSync[c] = value,
                                   !.ops = IF owner = "none" THEN @ + 1 ELSE @],
          issued |-> TRUE]

\* syncCharacteristicToSolid up to its return: it has no await, so the cache
\* update and the start of the save are one step.  st carries the cache, the
\* saves in flight and the history through a sequence of calls.
syncCharacteristicToSolid(st, c, value, owner) ==
    IF Suppressed(st.cache, c, value)
    THEN [st EXCEPT !.hist.lastSync[c] = value,
                    !.hist.repeat = @ \/ (\E k \in 1..Len(st.writes) :
                                             /\ st.writes[k].c = c
                                             /\ st.writes[k].value = value
                                             /\ st.hist.lastSync[c] = value),
                    !.issued = FALSE]
    ELSE [cache |-> [st.cache EXCEPT ![c] = value],
          writes |-> Append(st.writes,
                            [c |-> c, value |-> value,
                             rec |-> CharacteristicRecord(c, value), owner |-> owner]),
          hist |-> [st.hist EXCEPT !.lastSync[c] = value,
                                   !.ops = IF owner = "none" THEN @ + 1 ELSE @],
          issued |-> TRUE]

Store == [cache |-> cache, writes |-> writes, hist |-> hist, issued |-> FALSE]

\* The forEach of the service-update listener over one service.
RECURSIVE SyncEach(_, _, _, _)
SyncEach(st, d, vals, i) ==
    IF i > Len(serviceCharacteristics(d)) THEN st
    ELSE LET c == serviceCharacteristics(d)[i]
         IN SyncEach(syncCharacteristicToSolid(st, c, vals[c], "none"), d, vals, i + 1)

\* Variant: the saves of the characteristics are started and not awaited;
\* every url is linked and the device record is saved at once.
syncDeviceNoAwait(st, d, vals, i, links) ==
    [st |-> SyncEach(st, d, vals, i),
     tk |-> [pc |-> "dev", i |-> Len(serviceCharacteristics(d)) + 1,
             links |-> links \cup CharSet(d)]]

\* syncDeviceToSolid from the i-th characteristic to its next suspension:
\* either the save of a characteristic (pc "char") or, after the loop, the
\* save of the device record (pc "dev").  A suppressed call returns
\* undefined and adds no link.
RECURSIVE syncDeviceToSolid(_, _, _, _, _)
syncDeviceToSolid(st, d, vals, i, links) ==
    IF i > Len(serviceCharacteristics(d))
    THEN [st |-> st, tk |-> [pc |-> "dev", i |-> i, links |-> links]]
    ELSE LET c == serviceCharacteristics(d)[i]
             nx == syncCharacteristicToSolid(st, c, vals[c], d)
         IN IF nx.issued
            THEN [st |-> nx, tk |-> [pc |-> "char", i |-> i, links |-> links]]
            ELSE syncDeviceToSolid(nx, d, vals, i + 1, links)

\* saveSolidDatasetAt succeeded at the pod: the record replaces the stored
\* one and the pod publishes to the subscribers of the url.
Publish(q, r) == IF r \in subscribed THEN Append(q, r) ELSE q

RemoveAt(q, k) == [j \in 1..(Len(q) - 1) |-> IF j < k THEN q[j] ELSE q[j + 1]]

\* ------------------------------------------- instance-discovered handler
\* Lines 302-324: login, getAllServices, then services.map starts every
\* syncDeviceToSolid, each running to its first await.  A failed login is
\* caught and leaves session.info.webId unset; a failed getAllServices is
\* caught and yields no services.
\* A promise that nobody awaits or catches has rejected (lines 234, 253,
\* 343).  The runtime decides what follows: Node up to 14 prints a warning
\* and goes on, Node from 15 on ends the process.
UnhandledRejection == proc' \in {"running", "exited"}

StartMonitoring ==
    /\ mainpc' = "monitor"
    /\ hapMon' = "pending"
    /\ socket' = "connecting"

Discover ==
    /\ proc = "running"
    /\ mainpc = "init"
    /\ \E login \in BOOLEAN, fetched \in BOOLEAN :
         LET cost == (IF login THEN 0 ELSE 1) + (IF fetched THEN 0 ELSE 1)
             r1 == syncDeviceToSolid(Store, "d1", device, 1, {})
             r2 == syncDeviceToSolid(r1.st, "d2", device, 1, {})
         IN /\ cost <= budget.fail
            /\ budget' = [budget EXCEPT !.fail = @ - cost]
            /\ group' = [group EXCEPT !.webId = login]
            /\ mainpc' = "syncAll"
            /\ IF fetched
               THEN /\ snap' = device
                    /\ task' = [d \in Devices |-> IF d = "d1" THEN r1.tk ELSE r2.tk]
                    /\ cache' = r2.st.cache
                    /\ writes' = r2.st.writes
                    /\ hist' = r2.st.hist
               ELSE UNCHANGED <<snap, task, cache, writes, hist>>
    /\ UNCHANGED <<proc, codec, device, remote, devRecord, hapMon, socket, subscribed, events,
                   notifs, handlers>>

\* The save of a characteristic completes.  Awaited by syncDeviceToSolid
\* (owner d): the url is linked and the loop goes on; started by the
\* service-update listener (owner "none"): nobody awaits the promise.
WriteOk(k) ==
    /\ proc = "running"
    /\ k \in 1..Len(writes)
    /\ LET w == writes[k]
           st == [cache |-> cache, writes |-> RemoveAt(writes, k),
                  hist |-> hist,
                  issued |-> FALSE]
           r == IF w.owner = "none"
                THEN [st |-> st, tk |-> IdleTask]
                ELSE syncDeviceToSolid(st, w.owner, snap, task[w.owner].i + 1,
                                       task[w.owner].links \cup {w.c})
       IN /\ remote' = [remote EXCEPT ![w.c] = w.rec]
          /\ notifs' = Publish(notifs, w.c)
          /\ cache' = r.st.cache
          /\ writes' = r.st.writes
          /\ hist' = r.st.hist
          /\ task' = IF w.owner = "none" THEN task ELSE [task EXCEPT ![w.owner] = r.tk]
    /\ UNCHANGED <<proc, codec, device, devRecord, snap, mainpc, group, hapMon, socket, subscribed,
                   events, handlers, budget>>

\* The save of a characteristic rejects: the await in syncDeviceToSolid
\* throws and the invocation rejects; the listener's promise is dropped.
WriteFail(k) ==
    /\ proc = "running"
    /\ k \in 1..Len(writes)
    /\ budget.fail > 0
    /\ LET w == writes[k]
       IN /\ writes' = RemoveAt(writes, k)
          /\ task' = IF w.owner = "none" THEN task
                     ELSE [task EXCEPT ![w.owner].pc = "failed"]
    /\ budget' = [budget EXCEPT !.fail = @ - 1]
    /\ IF writes[k].owner = "none" THEN UnhandledRejection ELSE proc' = proc
    /\ UNCHANGED <<codec, device, remote, devRecord, cache, snap, mainpc, group, hapMon,
                   socket, subscribed, events, notifs, handlers, hist>>

\* Lines 163-165: the save of the device record completes.
DevWriteOk(d) ==
    /\ proc = "running"
    /\ task[d].pc = "dev"
    /\ devRecord' = [devRecord EXCEPT ![d] = [written |-> TRUE, links |-> task[d].links]]
    /\ task' = [task EXCEPT ![d].pc = "done"]
    /\ UNCHANGED <<proc, codec, device, remote, cache, writes, snap, mainpc, group, hapMon, socket,
                   subscribed, events, notifs, handlers, budget, hist>>

DevWriteFail(d) ==
    /\ proc = "running"
    /\ task[d].pc = "dev"
    /\ budget.fail > 0
    /\ budget' = [budget EXCEPT !.fail = @ - 1]
    /\ task' = [task EXCEPT ![d].pc = "failed"]
    /\ UNCHANGED <<proc, codec, device, remote, devRecord, cache, writes, snap, mainpc, group, hapMon,
                   socket, subscribed, events, notifs, handlers, hist>>

\* Lines 322-347: Promise.all resolved; with a group name the group record
\* is saved (awaited), otherwise monitoring starts.
JoinAll ==
    /\ proc = "running"
    /\ mainpc = "syncAll"
    /\ \A d \in Devices : task[d].pc \in {"done", "idle"}
    /\ IF group.name
       THEN /\ mainpc' = "groupWrite"
            /\ group' = [group EXCEPT !.groupWrite = "inflight"]
            /\ UNCHANGED <<hapMon, socket>>
       ELSE /\ StartMonitoring
            /\ group' = group
    /\ UNCHANGED <<proc, codec, device, remote, devRecord, cache, writes, task, snap,
                   subscribed, events, notifs, handlers, budget, hist>>

\* Lines 350-360: Promise.all rejects with the first rejected invocation;
\* the catch logs and monitoring starts while the others still run.
JoinFail ==
    /\ proc = "running"
    /\ mainpc = "syncAll"
    /\ \E d \in Devices : task[d].pc = "failed"
    /\ StartMonitoring
    /\ UNCHANGED <<proc, codec, device, remote, devRecord, cache, writes, task, snap, group,
                   subscribed, events, notifs, handlers, budget, hist>>

\* Lines 327-346: the group save resolved; with a webId the identity
\* record is fetched (awaited).
GroupWriteOk ==
    /\ proc = "running"
    /\ mainpc = "groupWrite"
    /\ group' = [group EXCEPT !.written = TRUE, !.groupWrite = "ok",
                              !.links = {d \in Devices : task[d].pc = "done"}]
    /\ IF group.webId
       THEN /\ mainpc' = "identityFetch"
            /\ UNCHANGED <<hapMon, socket>>
       ELSE StartMonitoring
    /\ UNCHANGED <<proc, codec, device, remote, devRecord, cache, writes, task, snap,
                   subscribed, events, notifs, handlers, budget, hist>>

GroupWriteFail ==
    /\ proc = "running"
    /\ mainpc = "groupWrite"
    /\ budget.fail > 0
    /\ budget' = [budget EXCEPT !.fail = @ - 1]
    /\ group' = [group EXCEPT !.groupWrite = "failed"]
    /\ StartMonitoring
    /\ UNCHANGED <<proc, codec, device, remote, devRecord, cache, writes, task, snap,
                   subscribed, events, notifs, handlers, hist>>

\* Lines 333-348: the identity record arrived; its save is started and not
\* awaited, so monitoring starts with that save in flight.
IdentityFetchOk ==
    /\ proc = "running"
    /\ mainpc = "identityFetch"
    /\ group' = [group EXCEPT !.idWrite = "inflight"]
    /\ StartMonitoring
    /\ UNCHANGED <<proc, codec, device, remote, devRecord, cache, writes, task, snap,
                   subscribed, events, notifs, handlers, budget, hist>>

IdentityFetchFail ==
    /\ proc = "running"
    /\ mainpc = "identityFetch"
    /\ budget.fail > 0
    /\ budget' = [budget EXCEPT !.fail = @ - 1]
    /\ StartMonitoring
    /\ UNCHANGED <<proc, codec, device, remote, devRecord, cache, writes, task, snap, group,
                   subscribed, events, notifs, handlers, hist>>

IdentityWriteOk ==
    /\ proc = "running"
    /\ group.idWrite = "inflight"
    /\ group' = [group EXCEPT !.idWrite = "ok", !.owner = TRUE]
    /\ UNCHANGED <<proc, codec, device, remote, devRecord, cache, writes, task, snap, mainpc, hapMon,
                   socket, subscribed, events, notifs, handlers, budget, hist>>

IdentityWriteFail ==
    /\ proc = "running"
    /\ group.idWrite = "inflight"
    /\ budget.fail > 0
    /\ budget' = [budget EXCEPT !.fail = @ - 1]
    /\ group' = [group EXCEPT !.idWrite = "failed"]
    /\ UnhandledRejection
    /\ UNCHANGED <<codec, device, remote, devRecord, cache, writes, task, snap, mainpc, hapMon,
                   socket, subscribed, events, notifs, handlers, hist>>

\* --------------------------------------------------- monitoring set-up
\* Lines 229-231: hap.monitorCharacteristics() resolved, the listener is on.
HapMonitorReady ==
    /\ proc = "running"
    /\ hapMon = "pending"
    /\ hapMon' = "on"
    /\ UNCHANGED <<proc, codec, device, remote, devRecord, cache, writes, task, snap, mainpc, group,
                   socket, subscribed, events, notifs, handlers, budget, hist>>

\* Variant: onopen subscribes to every characteristic url there is.
SocketOpenAll ==
    /\ proc = "running"
    /\ socket = "connecting"
    /\ socket' = "open"
    /\ subscribed' = Chars
    /\ UNCHANGED <<proc, codec, device, remote, devRecord, cache, writes, task, snap, mainpc, group,
                   hapMon, events, notifs, handlers, budget, hist>>

\* Lines 244-246: onopen sends "sub url" for every key of the Map.
SocketOpen ==
    /\ proc = "running"
    /\ socket = "connecting"
    /\ socket' = "open"
    /\ subscribed' = {c \in Chars : cache[c] # Absent}
    /\ UNCHANGED <<proc, codec, device, remote, devRecord, cache, writes, task, snap, mainpc, group,
                   hapMon, events, notifs, handlers, budget, hist>>

\* ------------------------------------------------------- HomeKit side
\* The service a "service-update" event carries: all characteristics of
\* the service with their values at emission.  echo names the
\* characteristic whose setValue produced the event, if any.
ServiceUpdate(d, dev, echo) ==
    [d |-> d, vals |-> [c \in CharSet(d) |-> dev[c]], echo |-> echo]

Emit(q, d, dev, echo) == IF hapMon = "on" THEN Append(q, ServiceUpdate(d, dev, echo)) ELSE q

\* A value changes on the HomeKit side (a sensor reading, a switch).
LocalChange(c, v) ==
    /\ proc = "running"
    /\ budget.env > 0
    /\ hapMon = "on"
    /\ v \in Values(c) \ {device[c]}
    /\ budget' = [budget EXCEPT !.env = @ - 1]
    /\ device' = [device EXCEPT ![c] = v]
    /\ events' = Emit(events, deviceOf(c), device', "none")
    /\ UNCHANGED <<proc, codec, remote, devRecord, cache, writes, task, snap, mainpc, group, hapMon,
                   socket, subscribed, notifs, handlers, hist>>

\* Lines 231-237: the listener runs syncCharacteristicToSolid for every
\* characteristic of the updated service and awaits none of them.
ServiceUpdateEvent ==
    /\ proc = "running"
    /\ events # <<>>
    /\ hist.ops < MaxOps
    /\ LET e == Head(events)
           st == SyncEach(Store, e.d, e.vals, 1)
       IN /\ cache' = st.cache
          /\ writes' = st.writes
          /\ hist' = st.hist
    /\ events' = Tail(events)
    /\ UNCHANGED <<proc, codec, device, remote, devRecord, task, snap, mainpc, group, hapMon, socket,
                   subscribed, notifs, handlers, budget>>

\* ----------------------------------------------------------- pod side
\* Another client of the pod writes a control value into a characteristic
\* record; the pod publishes the change.
RemoteChange(c, v) ==
    /\ proc = "running"
    /\ budget.env > 0
    /\ socket = "open"
    /\ remote[c] # NoRecord
    /\ format(c) \in Supported
    /\ v \in {Num(0), Num(1)}
    /\ remote[c].val # Encode(format(c), v)
    /\ budget' = [budget EXCEPT !.env = @ - 1]
    /\ remote' = [remote EXCEPT ![c].val = Encode(format(c), v)]
    /\ notifs' = Publish(notifs, c)
    /\ UNCHANGED <<proc, codec, device, devRecord, cache, writes, task, snap, mainpc, group, hapMon,
                   socket, subscribed, events, handlers, hist>>

\* A "pub" message the engine did not subscribe to, or a repeated one.
StrayNotify(r) ==
    /\ proc = "running"
    /\ budget.env > 0
    /\ socket = "open"
    /\ r \in Resources
    /\ budget' = [budget EXCEPT !.env = @ - 1]
    /\ notifs' = Append(notifs, r)
    /\ UNCHANGED <<proc, codec, device, remote, devRecord, cache, writes, task, snap, mainpc, group,
                   hapMon, socket, subscribed, events, handlers, hist>>

\* ------------------------------------------------------ reverse sync
\* Lines 253-259: onmessage up to its first await.  Without a Map entry the
\* handler returns; otherwise curr is captured and the record is fetched.
\* Variant: the Map is not consulted.
RecognizedAny(cch, r) == r \in Chars

Recognized(cch, r) == r \in Chars /\ cch[r] # Absent

OnMessage ==
    /\ proc = "running"
    /\ notifs # <<>>
    /\ LET r == Head(notifs)
       IN IF Recognized(cache, r)
          THEN /\ handlers' = Append(handlers,
                                     [c |-> r, curr |-> cache[r], pc |-> "fetch",
                                      value |-> Null])
               /\ hist' = hist
          ELSE /\ handlers' = handlers
               /\ hist' = [hist EXCEPT !.dropped = TRUE]
    /\ notifs' = Tail(notifs)
    /\ UNCHANGED <<proc, codec, device, remote, devRecord, cache, writes, task, snap, mainpc, group,
                   hapMon, socket, subscribed, events, budget>>

\* Variant: the fetched value is not compared with the Map entry.
NeedsLocalWriteAlways(value, curr) == value # Null

\* Line 292: the decision to write locally, against the captured curr.
NeedsLocalWrite(value, curr) == value # Null /\ ~LooseEq(value, curr)

\* Lines 259-294: getSolidDataset resolved; the format and the value are
\* read from the fetched thing and compared with curr; a different value
\* starts curr.setValue.
FetchOk(k) ==
    /\ proc = "running"
    /\ k \in 1..Len(handlers)
    /\ handlers[k].pc = "fetch"
    /\ hist.ops < MaxOps
    /\ remote[handlers[k].c] # NoRecord
    /\ LET h == handlers[k]
           value == Decode(remote[h.c].fmt, remote[h.c].val)
       IN IF NeedsLocalWrite(value, h.curr)
          THEN /\ handlers' = [handlers EXCEPT ![k].pc = "put", ![k].value = value]
               /\ hist' = [hist EXCEPT !.ops = @ + 1]
          ELSE /\ handlers' = RemoveAt(handlers, k)
               /\ hist' = hist
    /\ UNCHANGED <<proc, codec, device, remote, devRecord, cache, writes, task, snap, mainpc, group,
                   hapMon, socket, subscribed, events, notifs, budget>>

\* Lines 259-261: getSolidDataset rejects (network failure, or no record at
\* the url yet), or the fetched dataset has no thing of that name and
\* reading the format from null throws.  Nothing catches it: the async
\* handler rejects and this message is lost.
FetchFail(k) ==
    /\ proc = "running"
    /\ k \in 1..Len(handlers)
    /\ handlers[k].pc = "fetch"
    /\ IF remote[handlers[k].c] = NoRecord
       THEN budget' = budget
       ELSE /\ budget.fail > 0
            /\ budget' = [budget EXCEPT !.fail = @ - 1]
    /\ handlers' = RemoveAt(handlers, k)
    /\ UnhandledRejection
    /\ UNCHANGED <<codec, device, remote, devRecord, cache, writes, task, snap, mainpc, group,
                   hapMon, socket, subscribed, events, notifs, hist>>

\* The value HomeKit holds after accepting a write: in the type of the
\* characteristic's format.
Accepted(c, value) ==
    IF format(c) = "bool" THEN Bool(IF ToNumber(value) = Num(0) THEN 0 ELSE 1) ELSE value

\* The accessory applies the value of a setValue in flight and HomeKit
\* emits the change; the promise of setValue has not resolved yet.
SetValueApply(k) ==
    /\ proc = "running"
    /\ k \in 1..Len(handlers)
    /\ handlers[k].pc = "put"
    /\ LET h == handlers[k]
       IN /\ device' = [device EXCEPT ![h.c] = Accepted(h.c, h.value)]
          /\ events' = Emit(events, deviceOf(h.c), device', h.c)
          /\ handlers' = [handlers EXCEPT ![k].pc = "applied",
                                          ![k].value = Accepted(h.c, h.value)]
    /\ UNCHANGED <<proc, codec, remote, devRecord, cache, writes, task, snap, mainpc, group, hapMon,
                   socket, subscribed, notifs, budget, hist>>

\* Lines 294-295: setValue resolved with the updated characteristic, which
\* replaces the Map entry.
SetValueReturn(k) ==
    /\ proc = "running"
    /\ k \in 1..Len(handlers)
    /\ handlers[k].pc = "applied"
    /\ LET h == handlers[k]
       IN /\ cache' = [cache EXCEPT ![h.c] = h.value]
          /\ hist' = [hist EXCEPT !.lastSync[h.c] = Absent]
    /\ handlers' = RemoveAt(handlers, k)
    /\ UNCHANGED <<proc, codec, device, remote, devRecord, writes, task, snap, mainpc, group, hapMon,
                   socket, subscribed, events, notifs, budget>>

\* Variant: the Map entry is replaced whatever setValue resolves with.
SetValueFailCaches(k) ==
    /\ proc = "running"
    /\ k \in 1..Len(handlers)
    /\ handlers[k].pc = "put"
    /\ budget.fail > 0
    /\ budget' = [budget EXCEPT !.fail = @ - 1]
    /\ cache' = [cache EXCEPT ![handlers[k].c] = handlers[k].value]
    /\ handlers' = RemoveAt(handlers, k)
    /\ UNCHANGED <<proc, codec, device, remote, devRecord, writes, task, snap, mainpc, group,
                   hapMon, socket, subscribed, events, notifs, hist>>

\* Lines 294-295: setValue resolves with undefined (the accessory refused
\* or the request failed): the Map is not touched.
SetValueFail(k) ==
    /\ proc = "running"
    /\ k \in 1..Len(handlers)
    /\ handlers[k].pc = "put"
    /\ budget.fail > 0
    /\ budget' = [budget EXCEPT !.fail = @ - 1]
    /\ handlers' = RemoveAt(handlers, k)
    /\ UNCHANGED <<proc, codec, device, remote, devRecord, cache, writes, task, snap, mainpc, group,
                   hapMon, socket, subscribed, events, notifs, hist>>

\* ------------------------------------------------------ specification
Environment ==
    \/ \E c \in Chars, v \in {Bool(0), Bool(1), Num(0), Num(1)} : LocalChange(c, v)
    \/ \E c \in Chars, v \in {Num(0), Num(1)} : RemoteChange(c, v)
    \/ \E r \in Resources : StrayNotify(r)

Engine ==
    \/ Discover
    \/ \E k \in 1..Len(writes) : WriteOk(k)
    \/ \E k \in 1..Len(writes) : WriteFail(k)
    \/ \E d \in Devices : DevWriteOk(d)
    \/ \E d \in Devices : DevWriteFail(d)
    \/ JoinAll
    \/ JoinFail
    \/ HapMonitorReady
    \/ SocketOpen
    \/ ServiceUpdateEvent
    \/ OnMessage
    \/ \E k \in 1..Len(handlers) : FetchOk(k)
    \/ \E k \in 1..Len(handlers) : FetchFail(k)
    \/ \E k \in 1..Len(handlers) : SetValueApply(k)
    \/ \E k \in 1..Len(handlers) : SetValueReturn(k)
    \/ \E k \in 1..Len(handlers) : SetValueFail(k)

Hierarchy ==
    \/ GroupWriteOk
    \/ GroupWriteFail
    \/ IdentityFetchOk
    \/ IdentityFetchFail
    \/ IdentityWriteOk
    \/ IdentityWriteFail

Next == Environment \/ Engine

Spec == Init /\ [][Next]_vars

\* ------------------------------------------- with a group name
\* Line 325: argv.groupName is given.  The start-up handler alone, with
\* requests that may fail, up to the start of the two monitors.
InitHierarchy ==
    /\ device \in [Chars -> {Bool(0), Bool(1), Num(0), Num(1)}]
    /\ \A c \in Chars : device[c] = InitialValue(c)
    /\ remote = [c \in Chars |-> NoRecord]
    /\ devRecord = [d \in Devices |-> [written |-> FALSE, links |-> {}]]
    /\ cache = [c \in Chars |-> Absent]
    /\ writes = <<>>
    /\ task = [d \in Devices |-> IdleTask]
    /\ snap = [c \in Chars |-> Absent]
    /\ mainpc = "init"
    /\ group = [name |-> TRUE, webId |-> FALSE, written |-> FALSE, links |-> {},
                owner |-> FALSE, groupWrite |-> "none", idWrite |-> "none"]
    /\ hapMon = "off"
    /\ socket = "none"
    /\ subscribed = {}
    /\ events = <<>>
    /\ notifs = <<>>
    /\ handlers = <<>>
    /\ budget = [env |-> 0, fail |-> MaxFailures]
    /\ hist = InitHist
    /\ proc = "running"
    /\ codec = NoCodec

NextHierarchy ==
    \/ Discover
    \/ \E k \in 1..Len(writes) : WriteOk(k)
    \/ \E k \in 1..Len(writes) : WriteFail(k)
    \/ \E d \in Devices : DevWriteOk(d)
    \/ \E d \in Devices : DevWriteFail(d)
    \/ JoinAll
    \/ JoinFail
    \/ Hierarchy
    \/ HapMonitorReady
    \/ SocketOpen

SpecHierarchy == InitHierarchy /\ [][NextHierarchy]_vars

\* ------------------------------------------- the two switches alone
\* One characteristic value of a supported format is taken through the
\* switch of syncCharacteristicToSolid and the stored literal through the
\* switch of onmessage.
MaxByte == 255
IntegerValues(fmt) ==
    {Num(0), Num(1), Num(42), Num(MaxByte),
     Str(<<"0">>), Str(<<"4", "2">>), Str(<<"0", "0", "7">>)}
    \cup (IF fmt = "int" THEN {Num(0 - 3), Str(<<"-", "3">>)} ELSE {})

CodecValues(fmt) ==
    CASE fmt = "bool" ->
            {Bool(0), Bool(1), Num(0), Num(1), Str(<<"0">>), Str(<<"1">>)}
      [] fmt = "string" ->
            {Str(<<>>), Str(<<"o", "n">>), Str(<<"1">>), Str(<<"2", "1", ".", "5">>),
             Str(<<" ", "a">>), Str(<<"N", "a", "N">>)}
      [] fmt = "float" ->
            {Num(0), Num(1), Num(42), Dec(5), Dec(215), Dec(0 - 215),
             Str(<<"1">>), Str(<<"0", ".", "5">>), Str(<<".", "5">>),
             Str(<<"2", "1", ".", "5">>), Str(<<"-", "2", "1", ".", "5">>)}
      [] OTHER -> IntegerValues(fmt)

InitCodec ==
    /\ codec \in {[pc |-> "value", fmt |-> f, value |-> v, rec |-> NoRecord, out |-> Null] :
                     f \in Supported, v \in UNION {CodecValues(g) : g \in Supported}}
    /\ codec.value \in CodecValues(codec.fmt)
    /\ device = [c \in Chars |-> InitialValue(c)]
    /\ remote = [c \in Chars |-> NoRecord]
    /\ devRecord = [d \in Devices |-> [written |-> FALSE, links |-> {}]]
    /\ cache = [c \in Chars |-> Absent]
    /\ writes = <<>>
    /\ task = [d \in Devices |-> IdleTask]
    /\ snap = [c \in Chars |-> Absent]
    /\ mainpc = "init"
    /\ group = [name |-> FALSE, webId |-> FALSE, written |-> FALSE, links |-> {},
                owner |-> FALSE, groupWrite |-> "none", idWrite |-> "none"]
    /\ hapMon = "off"
    /\ socket = "none"
    /\ subscribed = {}
    /\ events = <<>>
    /\ notifs = <<>>
    /\ handlers = <<>>
    /\ budget = [env |-> 0, fail |-> 0]
    /\ hist = InitHist
    /\ proc = "running"

\* Lines 191-223: the value literal of the record that is saved.
CodecEncode ==
    /\ codec.pc = "value"
    /\ codec' = [codec EXCEPT !.pc = "stored",
                              !.rec = [fmt |-> codec.fmt,
                                       val |-> Encode(codec.fmt, codec.value)]]
    /\ UNCHANGED <<device, remote, devRecord, cache, writes, task, snap, mainpc, group,
                   hapMon, socket, subscribed, events, notifs, handlers, budget, hist, proc>>

\* Lines 265-289: the value read from the fetched record.
CodecDecode ==
    /\ codec.pc = "stored"
    /\ codec' = [codec EXCEPT !.pc = "decoded",
                              !.out = Decode(codec.rec.fmt, codec.rec.val)]
    /\ UNCHANGED <<device, remote, devRecord, cache, writes, task, snap, mainpc, group,
                   hapMon, socket, subscribed, events, notifs, handlers, budget, hist, proc>>

NextCodec == CodecEncode \/ CodecDecode

SpecCodec == InitCodec /\ [][NextCodec]_vars

\* ------------------------------------------- from a synced state on
\* The state the full sync leaves when every request succeeded and both
\* monitors are up: device, pod and Map agree on every characteristic.
InitSynced ==
    /\ device \in [Chars -> {Bool(0), Bool(1), Num(0), Num(1)}]
    /\ \A c \in Chars : device[c] \in Values(c)
    /\ remote = [c \in Chars |-> CharacteristicRecord(c, device[c])]
    /\ devRecord = [d \in Devices |-> [written |-> TRUE, links |-> CharSet(d)]]
    /\ cache = device
    /\ writes = <<>>
    /\ task = [d \in Devices |->
                 [pc |-> "done", i |-> Len(serviceCharacteristics(d)) + 1,
                  links |-> CharSet(d)]]
    /\ snap = device
    /\ mainpc = "monitor"
    /\ group = [name |-> FALSE, webId |-> TRUE, written |-> FALSE, links |-> {},
                owner |-> FALSE, groupWrite |-> "none", idWrite |-> "none"]
    /\ hapMon = "on"
    /\ socket = "open"
    /\ subscribed = Chars
    /\ events = <<>>
    /\ notifs = <<>>
    /\ handlers = <<>>
    /\ budget = [env |-> 1, fail |-> 0]
    /\ hist = [InitHist EXCEPT !.lastSync = device]
    /\ proc = "running"
    /\ codec = NoCodec

EnvironmentSynced ==
    \/ \E c \in Chars, v \in {Bool(0), Bool(1), Num(0), Num(1)} : LocalChange(c, v)
    \/ \E c \in Chars, v \in {Num(0), Num(1)} : RemoteChange(c, v)

EngineSynced ==
    \/ \E k \in 1..Len(writes) : WriteOk(k)
    \/ ServiceUpdateEvent
    \/ OnMessage
    \/ \E k \in 1..Len(handlers) : FetchOk(k)
    \/ \E k \in 1..Len(handlers) : SetValueApply(k)
    \/ \E k \in 1..Len(handlers) : SetValueReturn(k)

NextSynced == EnvironmentSynced \/ EngineSynced

\* Every started request completes and every delivered event is handled.
SpecSynced == InitSynced /\ [][NextSynced]_vars /\ WF_vars(EngineSynced)

\* ------------------------------------------- a second discovery
\* Lines 302-324 once more: hap emits "instance-discovered" for every
\* instance it finds, and each event runs the whole handler.  Here the
\* second event comes when the syncs of the first run have ended; the Map
\* still holds what the first run put there.  The monitors the second run
\* starts take the place of the first ones in hapMon and socket.
Rediscover ==
    /\ proc = "running"
    /\ mainpc = "monitor"
    /\ budget.env > 0
    /\ \A d \in Devices : task[d].pc \in {"idle", "done", "failed"}
    /\ \E login \in BOOLEAN, fetched \in BOOLEAN :
         LET cost == (IF login THEN 0 ELSE 1) + (IF fetched THEN 0 ELSE 1)
             r1 == syncDeviceToSolid(Store, "d1", device, 1, {})
             r2 == syncDeviceToSolid(r1.st, "d2", device, 1, {})
         IN /\ cost <= budget.fail
            /\ budget' = [env |-> budget.env - 1, fail |-> budget.fail - cost]
            /\ group' = [group EXCEPT !.webId = @ \/ login]
            /\ mainpc' = "syncAll"
            /\ IF fetched
               THEN /\ snap' = device
                    /\ task' = [d \in Devices |-> IF d = "d1" THEN r1.tk ELSE r2.tk]
                    /\ cache' = r2.st.cache
                    /\ writes' = r2.st.writes
                    /\ hist' = r2.st.hist
               ELSE /\ task' = [d \in Devices |-> IdleTask]
                    /\ UNCHANGED <<snap, cache, writes, hist>>
    /\ UNCHANGED <<proc, codec, device, remote, devRecord, hapMon, socket, subscribed, events,
                   notifs, handlers>>

InitRediscover ==
    /\ device = [c \in Chars |-> InitialValue(c)]
    /\ remote = [c \in Chars |-> NoRecord]
    /\ devRecord = [d \in Devices |-> [written |-> FALSE, links |-> {}]]
    /\ cache = [c \in Chars |-> Absent]
    /\ writes = <<>>
    /\ task = [d \in Devices |-> IdleTask]
    /\ snap = [c \in Chars |-> Absent]
    /\ mainpc = "init"
    /\ group = [name |-> FALSE, webId |-> FALSE, written |-> FALSE, links |-> {},
                owner |-> FALSE, groupWrite |-> "none", idWrite |-> "none"]
    /\ hapMon = "off"
    /\ socket = "none"
    /\ subscribed = {}
    /\ events = <<>>
    /\ notifs = <<>>
    /\ handlers = <<>>
    /\ budget = [env |-> 1, fail |-> MaxFailures]
    /\ hist = InitHist
    /\ proc = "running"
    /\ codec = NoCodec

NextRediscover ==
    \/ Discover
    \/ Rediscover
    \/ \E k \in 1..Len(writes) : WriteOk(k)
    \/ \E k \in 1..Len(writes) : WriteFail(k)
    \/ \E d \in Devices : DevWriteOk(d)
    \/ \E d \in Devices : DevWriteFail(d)
    \/ JoinAll
    \/ JoinFail
    \/ HapMonitorReady
    \/ SocketOpen

SpecRediscover == InitRediscover /\ [][NextRediscover]_vars

\* ------------------------------------------- local changes only
\* From the synced state, with values that change on the HomeKit side only
\* and requests that all succeed: every record in the pod and every "pub"
\* message then stems from a save of the engine itself.
InitLocal ==
    /\ device \in [Chars -> {Bool(0), Bool(1), Num(0), Num(1)}]
    /\ \A c \in Chars : device[c] \in Values(c)
    /\ remote = [c \in Chars |-> CharacteristicRecord(c, device[c])]
    /\ devRecord = [d \in Devices |-> [written |-> TRUE, links |-> CharSet(d)]]
    /\ cache = device
    /\ writes = <<>>
    /\ task = [d \in Devices |->
                 [pc |-> "done", i |-> Len(serviceCharacteristics(d)) + 1,
                  links |-> CharSet(d)]]
    /\ snap = device
    /\ mainpc = "monitor"
    /\ group = [name |-> FALSE, webId |-> TRUE, written |-> FALSE, links |-> {},
                owner |-> FALSE, groupWrite |-> "none", idWrite |-> "none"]
    /\ hapMon = "on"
    /\ socket = "open"
    /\ subscribed = Chars
    /\ events = <<>>
    /\ notifs = <<>>
    /\ handlers = <<>>
    /\ budget = [env |-> MaxChanges, fail |-> 0]
    /\ hist = [InitHist EXCEPT !.lastSync = device]
    /\ proc = "running"
    /\ codec = NoCodec

NextLocal ==
    \/ \E c \in Chars, v \in {Bool(0), Bool(1), Num(0), Num(1)} : LocalChange(c, v)
    \/ EngineSynced

SpecLocal == InitLocal /\ [][NextLocal]_vars

\* --------------------------------------------------------- properties
Quiescent ==
    /\ writes = <<>>
    /\ handlers = <<>>
    /\ events = <<>>
    /\ notifs = <<>>
    /\ \A d \in Devices : task[d].pc \in {"idle", "done", "failed"}
    /\ group.idWrite # "inflight"

\* The step is the service-update listener handling the oldest event.
IsServiceUpdate == events # <<>> /\ events' = Tail(events)

\* The step starts a save of characteristic c.
StartsWrite(c) == \E k \in (Len(writes) + 1)..Len(writes') : writes'[k].c = c

\* C1 (as claimed): an event that reports the value a setValue of reverse
\* sync applied to a characteristic never makes the listener start a save
\* of that characteristic, in any interleaving.
C1_NoEcho ==
    [][IsServiceUpdate /\ Head(events).echo # "none" => ~StartsWrite(Head(events).echo)]_vars

\* C2: a forward sync call that repeats the value of the previous call for
\* the same url (the Map entry not having been set by reverse sync in
\* between) starts no save and leaves the Map entry as it is, also while
\* the save of the previous call is still in flight.
C2_Idempotent ==
    [][IsServiceUpdate =>
         \A c \in CharSet(Head(events).d) :
            hist.lastSync[c] = Head(events).vals[c] =>
               ~StartsWrite(c) /\ cache'[c] = cache[c]]_vars

C2_Witness == hist.repeat

\* C3: from a synced state, one change of a value on the HomeKit side or
\* one write of another client into the pod, with no failure, makes the
\* engine issue at most two writes (remote saves plus setValue calls) and
\* the engine then comes to rest for good.
C3_NoPingPong == [](hist.ops <= 2) /\ <>[]Quiescent

\* Reached after a write into the pod: setValue, then the save the echoed
\* event started while setValue had not returned, then rest.
C3_Witness == Quiescent /\ budget.env = 0 /\ hist.ops = 2

\* C4 (as claimed): whenever nothing is in flight, every Map entry equals
\* the value stored in the pod for its url and the value HomeKit holds.
\* Stated for the characteristics whose format has a value literal.
C4_CacheConsistent ==
    Quiescent =>
       \A c \in Chars :
          cache[c] # Absent /\ format(c) \in Supported =>
             /\ LooseEq(Decode(remote[c].fmt, remote[c].val), cache[c])
             /\ LooseEq(device[c], cache[c])

\* The step is the completion of save k, successful at the pod.
IsWriteOk(k) == writes' = RemoveAt(writes, k) /\ remote'[writes[k].c] = writes[k].rec

\* The step is reverse sync storing the characteristic setValue returned.
IsSetValueReturn(c) ==
    \E k \in 1..Len(handlers) :
       handlers[k].pc = "applied" /\ handlers[k].c = c /\ handlers' = RemoveAt(handlers, k)

\* C5 (as claimed): forward sync changes a Map entry only in the step in
\* which the save of that value is confirmed by the pod.
C5_CacheAfterConfirmedWrite ==
    [][\A c \in Chars :
          cache'[c] # cache[c] =>
             \/ IsSetValueReturn(c)
             \/ \E k \in 1..Len(writes) :
                   writes[k].c = c /\ writes[k].value = cache'[c] /\ IsWriteOk(k)]_vars

\* C6 (as claimed): after a save of value v for a url failed, the Map does
\* not suppress a forward sync of v for that url.
C6_FailedWriteRetried ==
    [][\A k \in 1..Len(writes) :
          WriteFail(k) => ~Suppressed(cache', writes[k].c, writes[k].value)]_vars

\* C7 (as claimed): a characteristic of an unsupported format gets no
\* remote record and no Map entry, and no save of it is ever in flight.
C7_UnsupportedAborts ==
    \A c \in Chars :
       format(c) \notin Supported =>
          /\ remote[c] = NoRecord
          /\ cache[c] = Absent
          /\ \A k \in 1..Len(writes) : writes[k].c # c

\* C8: every characteristic linked into a device record, stored or being
\* saved, has a record in the pod.
C8_LinksExist ==
    \A d \in Devices :
       /\ devRecord[d].written => \A c \in devRecord[d].links : remote[c] # NoRecord
       /\ task[d].pc = "dev" => \A c \in task[d].links : remote[c] # NoRecord

C8_Witness == devRecord["d1"].written /\ devRecord["d1"].links = {"c1", "c2"}

\* C9 (as claimed): a full sync of a device only fails in the save of the
\* device record itself: after a failed characteristic save the remaining
\* characteristics are synced and the device record is saved.
C9_FailureIsolated ==
    \A d \in Devices :
       task[d].pc = "failed" => task[d].i > Len(serviceCharacteristics(d))

\* C10: a message for a url without a Map entry is dropped: no fetch, no
\* setValue, no save and no change of the Map; the socket stays open and
\* the next message is handled.
C10_UnrecognizedDropped ==
    /\ [][/\ notifs # <<>> /\ notifs' = Tail(notifs)
          /\ (Head(notifs) \notin Chars \/ cache[Head(notifs)] = Absent)
          =>
            /\ handlers' = handlers
            /\ cache' = cache
            /\ writes' = writes
            /\ device' = device
            /\ socket' = socket]_vars
    /\ [](proc = "running" /\ notifs # <<>> => ENABLED OnMessage)

C10_Witness == hist.dropped /\ socket = "open"

\* C11 (as claimed): with a group name, once the full sync of every device
\* has ended, one group record is written and it links exactly the devices
\* whose record was written, also when the sync of some device failed;
\* the owner link of the identity record then points to the group.
\* Failures of a characteristic save and of the group save itself are left
\* aside.
C11_GroupLinksSynced ==
    /\ group.name
    /\ mainpc = "monitor"
    /\ \A d \in Devices :
          /\ task[d].pc \in {"idle", "done", "failed"}
          /\ task[d].pc = "failed" => task[d].i > Len(serviceCharacteristics(d))
    /\ group.groupWrite # "failed"
    => /\ group.written
       /\ group.links = {d \in Devices : devRecord[d].written}
       /\ group.idWrite = "ok" => group.owner

\* The step is the failure of the group save, of the identity fetch or of
\* the identity save.
HierarchyFails ==
    \/ group.groupWrite = "inflight" /\ group'.groupWrite = "failed"
    \/ mainpc = "identityFetch" /\ mainpc' = "monitor" /\ group'.idWrite = "none"
    \/ group.idWrite = "inflight" /\ group'.idWrite = "failed"

\* C12 (as claimed): a failure of the group save, of the identity fetch or
\* of the identity save changes no characteristic record, no device
\* record, no group record and no Map entry, and the engine goes on to
\* start both monitors: the handler is at its monitoring step and the
\* process runs.
C12_HierarchyBestEffort ==
    [][HierarchyFails =>
         /\ remote' = remote
         /\ devRecord' = devRecord
         /\ group'.written = group.written
         /\ group'.links = group.links
         /\ cache' = cache
         /\ mainpc' = "monitor"
         /\ proc' = "running"]_vars

\* C13: for every supported format and every value of that format, the
\* value read back from the literal forward sync stored is the value
\* itself: a boolean comes back as the integer 0 or 1, a numeric text as
\* its number, a string unchanged; and == holds between the two.
C13_CodecRoundTrip ==
    codec.pc = "decoded" =>
       /\ codec.out = (IF codec.fmt = "string" THEN codec.value ELSE ToNumber(codec.value))
       /\ LooseEq(codec.out, codec.value)

C13_Witness ==
    /\ codec.pc = "decoded"
    /\ codec.fmt = "float"
    /\ codec.value = Str(<<"2", "1", ".", "5">>)
    /\ codec.out = Dec(215)

\* C14 (as claimed): the decision of reverse sync is taken against the Map
\* entry as it is when the fetch has completed: a setValue is started only
\* with a value that differs from the entry at that moment, so a value
\* forward sync has put into the Map during the fetch is not written.
C14_RecheckAfterFetch ==
    [][\A k \in 1..Len(handlers) :
         /\ handlers[k].pc = "fetch"
         /\ Len(handlers') = Len(handlers)
         /\ handlers'[k].pc = "put"
         => ~LooseEq(handlers'[k].value, cache[handlers[k].c])]_vars

\* C15: reverse sync calls setValue with the fetched value when it differs
\* from the value of the Map entry the handler holds; the Map entry is
\* replaced, by the applied value, exactly when setValue reported success,
\* and a failed or refused setValue leaves the Map as it was.
C15_CacheOnConfirmedWrite ==
    [][
       /\ \A k \in 1..Len(handlers) :
            LET h == handlers[k]
                value == Decode(remote[h.c].fmt, remote[h.c].val)
            IN /\ (FetchOk(k) /\ value # Null /\ ~LooseEq(value, h.curr)
                   => handlers'[k].pc = "put" /\ handlers'[k].value = value)
               /\ (h.pc = "applied" /\ handlers' = RemoveAt(handlers, k)
                   => cache' = [cache EXCEPT ![h.c] = h.value])
               /\ (h.pc = "put" /\ handlers' = RemoveAt(handlers, k)
                   => cache' = cache)
       /\ (cache' # cache /\ handlers' # handlers
           => \E k \in 1..Len(handlers) :
                 handlers[k].pc = "applied" /\ handlers' = RemoveAt(handlers, k))
    ]_vars

C15_Witness ==
    \E c \in Chars :
       /\ cache[c] # Absent
       /\ hist.lastSync[c] = Absent
       /\ cache[c] = device[c]

\* C16 (as claimed): when the handling of one message ends without a
\* setValue (the fetch failed, the thing is missing, the format is not in
\* the switch), only that message is lost: no value is written locally,
\* the Map is unchanged, the socket stays open and the process runs on.
C16_MessageFailureContained ==
    [][\A k \in 1..Len(handlers) :
         handlers[k].pc = "fetch" /\ handlers' = RemoveAt(handlers, k)
         => /\ device' = device
            /\ cache' = cache
            /\ socket' = socket
            /\ proc' = "running"]_vars

\* C17 (as claimed): the two monitors are started only when the full sync
\* of every device, the group save and the identity save have each ended:
\* at that point no device sync is running and no save of the hierarchy is
\* in flight.  Stated for the runs in which no request has failed.
C17_MonitorsAfterHierarchy ==
    mainpc = "monitor" /\ budget.fail = MaxFailures
    => /\ \A d \in Devices : task[d].pc \in {"idle", "done", "failed"}
       /\ writes = <<>>
       /\ group.groupWrite # "inflight"
       /\ group.idWrite # "inflight"

\* C18: when the socket opens, the urls subscribed to are exactly the keys
\* the Map has at that moment; nothing is subscribed to at any other time,
\* so a url that enters the Map later is never subscribed on this socket.
C18_SubscriptionSnapshot ==
    [][
       /\ (socket # "open" /\ socket' = "open"
           => subscribed' = {c \in Chars : cache[c] # Absent})
       /\ (subscribed' # subscribed => socket = "connecting" /\ socket' = "open")
    ]_vars

C18_Witness ==
    /\ socket = "open"
    /\ \E c \in Chars : cache[c] # Absent /\ c \notin subscribed

\* C19 (as claimed): a "pub" message that stems from a save of the engine
\* itself never makes reverse sync call setValue; when a value changes
\* locally to v1 and then to v2, the message for the save of v1 does not
\* write v1 back, whether the save of v2 is in flight or done.  With local
\* changes only, no handler gets past its fetch.
C19_OwnWriteNotWrittenBack ==
    \A k \in 1..Len(handlers) : handlers[k].pc = "fetch"

\* C20 (as claimed): whenever the full sync of a device has ended well,
\* also one that a second discovery started while the Map held the
\* unchanged values, the device record in the pod links every
\* characteristic of the device that has a record in the pod.  Stated for
\* the runs in which no request has failed.
C20_RepeatedSyncKeepsLinks ==
    \A d \in Devices :
       task[d].pc = "done" /\ budget.fail = MaxFailures
       => /\ devRecord[d].written
          /\ {c \in CharSet(d) : remote[c] # NoRecord} \subseteq devRecord[d].links

====
